---- MODULE Spec2Model ----
(***************************************************************************)
(* Tic-tac-toe component of src/client/src/App.tsx.                        *)
(*                                                                         *)
(* The React state is the pair (board, current).  Every render derives     *)
(* winnerInfo, draw, gameOver, winningSet and status from it and creates   *)
(* the handlers (playAt, resetGame) as closures over the rendered values;  *)
(* the variable view holds what the latest render produced, which is what  *)
(* the handlers of the next input event read.  An input event runs its     *)
(* handler to completion, the queued state updates are applied, and the    *)
(* component is rendered again before the next event is dispatched.        *)
(*                                                                         *)
(* playAt is modelled as callable on every cell in every state (the        *)
(* disabled attribute of a cell is only a rendering of the same guard), so *)
(* that the guard of the handler itself is what decides a click.           *)
(***************************************************************************)
EXTENDS Integers, Sequences, FiniteSets, TLC

VARIABLES
    board,      \* useState<Cell[]>: the nine cells, indexed 0..8
    current,    \* useState<Player>: the player to move
    view,       \* what the latest render computed and its handlers captured
    mounted,    \* the render whose resetGame the keydown listener captured
    event,      \* the input event handled last
    pre,        \* the React state and the render before that event
    chained,    \* that event and the one before it were clicks that placed a mark
    moves,      \* the clicks that placed a mark since the board was last empty
    step,       \* how far the clicks since then spell out Scenario, -1 if they do not
    recording   \* whether the history event, pre, chained and step is kept

vars ==
    <<board, current, view, mounted, event, pre, chained, moves, step, recording>>

----------------------------------------------------------------------------
(* Types *)

Player == {"X", "O"}

Null == "null"

Cell == Player \cup {Null}

Cells == 0 .. 8

LINES ==
    << <<0, 1, 2>>,
       <<3, 4, 5>>,
       <<6, 7, 8>>,
       <<0, 3, 6>>,
       <<1, 4, 7>>,
       <<2, 5, 8>>,
       <<0, 4, 8>>,
       <<2, 4, 6>> >>

\* Array(9).fill(null)
EmptyBoard == [i \in Cells |-> Null]

\* The value null of type { winner, line } | null.
NoWinner == [winner |-> Null, line |-> <<>>]

\* JavaScript truthiness of a Cell: "X" and "O" are truthy, null is falsy.
Truthy(v) == v # Null

----------------------------------------------------------------------------
(* getWinner: the first line, in the order of LINES, whose three cells     *)
(* hold the same non-null mark.                                            *)

RECURSIVE getWinnerFrom(_, _)
getWinnerFrom(b, k) ==
    IF k > Len(LINES) THEN NoWinner
    ELSE LET line == LINES[k]
             v == b[line[1]]
         IN  IF Truthy(v) /\ v = b[line[2]] /\ v = b[line[3]]
             THEN [winner |-> v, line |-> line]
             ELSE getWinnerFrom(b, k + 1)

\* Mutant: the loop over LINES starts at its second entry.
getWinnerSkipsFirstLine(b) == getWinnerFrom(b, 2)

\* Mutant: a line counts as soon as its first two cells agree.
getWinnerTwoCells(b) ==
    LET hit == {k \in 1 .. Len(LINES) :
                  Truthy(b[LINES[k][1]]) /\ b[LINES[k][1]] = b[LINES[k][2]]}
    IN  IF hit = {} THEN NoWinner
        ELSE LET k == CHOOSE m \in hit : \A n \in hit : m <= n
             IN  [winner |-> b[LINES[k][1]], line |-> LINES[k]]

\* Mutant: the loop does not return at the first hit, the last hit stands.
getWinnerLastLine(b) ==
    LET hit == {k \in 1 .. Len(LINES) :
                  /\ Truthy(b[LINES[k][1]])
                  /\ b[LINES[k][1]] = b[LINES[k][2]]
                  /\ b[LINES[k][1]] = b[LINES[k][3]]}
    IN  IF hit = {} THEN NoWinner
        ELSE LET k == CHOOSE m \in hit : \A n \in hit : m >= n
             IN  [winner |-> b[LINES[k][1]], line |-> LINES[k]]

getWinner(b) == getWinnerFrom(b, 1)

\* Mutant: a full board is a draw whether or not a line is complete.
drawIgnoresWinner(b, winnerInfo) == \A i \in Cells : b[i] # Null

\* board.every((c) => c !== null) && !winnerInfo
draw(b, winnerInfo) == (\A i \in Cells : b[i] # Null) /\ winnerInfo = NoWinner

\* Mutant: only a draw ends the game.
gameOverOnlyDraw(winnerInfo, isDraw) == isDraw

\* Boolean(winnerInfo) || draw
gameOver(winnerInfo, isDraw) == winnerInfo # NoWinner \/ isDraw

\* new Set(winnerInfo?.line ?? [])
winningSet(winnerInfo) ==
    LET line == IF winnerInfo = NoWinner THEN <<>> ELSE winnerInfo.line
    IN  {line[k] : k \in 1 .. Len(line)}

\* Mutant: the turn text names the player who has just moved.
statusNamesLastMover(winnerInfo, isDraw, cur) ==
    IF winnerInfo # NoWinner THEN "Player " \o winnerInfo.winner \o " wins"
    ELSE IF isDraw THEN "Draw game"
    ELSE "Player " \o (IF cur = "X" THEN "O" ELSE "X") \o "'s turn"

\* The status template literals.
status(winnerInfo, isDraw, cur) ==
    IF winnerInfo # NoWinner THEN "Player " \o winnerInfo.winner \o " wins"
    ELSE IF isDraw THEN "Draw game"
    ELSE "Player " \o cur \o "'s turn"

\* Mutant: a cell is disabled only when it is filled.
disabledOnlyFilled(isOver, cell) == cell # Null

\* const disabled = gameOver || cell !== null
disabled(isOver, cell) == isOver \/ cell # Null

\* The colour class of a cell's text.
cellText(cell) ==
    IF cell = "X" THEN "text-blue-600"
    ELSE IF cell = "O" THEN "text-red-600"
    ELSE "text-transparent"

\* The text a cell's button holds: {cell ?? "X"}
cellContent(cell) == IF cell = Null THEN "X" ELSE cell

\* The button rendered for cell idx by board.map.
button(cell, idx, isOver, winning) ==
    [content   |-> cellContent(cell),
     cellText  |-> cellText(cell),
     disabled  |-> disabled(isOver, cell),
     isWinning |-> idx \in winning]

\* One render of App on the state st = [board, current].
render(st) ==
    LET w == getWinner(st.board)
        d == draw(st.board, w)
        o == gameOver(w, d)
        h == winningSet(w)
    IN  [board      |-> st.board,
         current    |-> st.current,
         winnerInfo |-> w,
         draw       |-> d,
         gameOver   |-> o,
         winningSet |-> h,
         status     |-> status(w, d, st.current),
         cells      |-> [i \in Cells |-> button(st.board[i], i, o, h)]]

----------------------------------------------------------------------------
(* Handlers.  Each maps the React state st to the state after the queued   *)
(* updates; vw is the render whose closure the handler is.                 *)

\* Mutant: the updater returns its argument.
flipKeeps(p) == IF p = "X" THEN "X" ELSE "O"

\* setCurrent's updater: p === "X" ? "O" : "X"
flip(p) == IF p = "X" THEN "O" ELSE "X"

\* Mutant: setCurrent(current), the rendered value, instead of setCurrent("X").
resetGameKeepsCurrent(st, vw) == [board |-> EmptyBoard, current |-> vw.current]

resetGame(st, vw) == [board |-> EmptyBoard, current |-> "X"]

\* Mutant: the guard tests gameOver only.
playAtOverwrites(st, vw, idx) ==
    IF vw.gameOver THEN st
    ELSE [board   |-> [vw.board EXCEPT ![idx] = vw.current],
          current |-> flip(st.current)]

\* Mutant: the new board is built from an empty array instead of [...board].
playAtFromEmpty(st, vw, idx) ==
    IF vw.gameOver \/ Truthy(vw.board[idx]) THEN st
    ELSE [board   |-> [EmptyBoard EXCEPT ![idx] = vw.current],
          current |-> flip(st.current)]

\* Mutant: the move is placed but setCurrent is not called.
playAtKeepsTurn(st, vw, idx) ==
    IF vw.gameOver \/ Truthy(vw.board[idx]) THEN st
    ELSE [board   |-> [vw.board EXCEPT ![idx] = vw.current],
          current |-> st.current]

\* Mutant: the guard is inverted on gameOver, so no click is ever accepted.
playAtNeverAccepts(st, vw, idx) ==
    IF ~vw.gameOver \/ Truthy(vw.board[idx]) THEN st
    ELSE [board   |-> [vw.board EXCEPT ![idx] = vw.current],
          current |-> flip(st.current)]

playAt(st, vw, idx) ==
    IF vw.gameOver \/ Truthy(vw.board[idx]) THEN st
    ELSE [board   |-> [vw.board EXCEPT ![idx] = vw.current],
          current |-> flip(st.current)]

\* String.prototype.toLowerCase on the keys the model presses.
Keys == {"r", "R", "x", "Enter"}

toLowerCase(k) ==
    CASE k = "R" -> "r"
      [] k = "Enter" -> "enter"
      [] OTHER -> k

onKeyDown(st, vw, key) ==
    IF toLowerCase(key) = "r" THEN resetGame(st, vw) ELSE st

----------------------------------------------------------------------------
(* The component as a state machine. *)

State == [board |-> board, current |-> current]

\* The useState initialisers.
InitialState == [board |-> EmptyBoard, current |-> "X"]

\* The click sequence of the draw scenario: X:0 O:1 X:2 O:4 X:3 O:5 X:7 O:6 X:8.
Scenario == <<0, 1, 2, 4, 3, 5, 7, 6, 8>>

\* The state after an event, then the render React performs before the next one.
Commit(st) ==
    /\ board' = st.board
    /\ current' = st.current
    /\ view' = render(st)
    /\ moves' = IF st.board = EmptyBoard THEN 0
                ELSE IF st.board # board THEN moves + 1
                ELSE moves
    /\ UNCHANGED <<mounted, recording>>

\* The history of the event ev, whose handler led to the state st.
Record(ev, st) ==
    IF recording
    THEN /\ event' = ev
         /\ pre' = [board |-> board, current |-> current, view |-> view]
         /\ chained' = /\ ev.type = "click" /\ st.board # board
                       /\ event.type = "click" /\ board # pre.board
         /\ step' = IF st.board = EmptyBoard THEN 0
                    ELSE IF ev.type # "click" THEN step
                    ELSE IF step >= 0 /\ step < Len(Scenario)
                            /\ ev.idx = Scenario[step + 1]
                         THEN step + 1
                         ELSE -1
    ELSE UNCHANGED <<event, pre, chained, step>>

Init ==
    /\ board = InitialState.board
    /\ current = InitialState.current
    /\ view = render(InitialState)
    /\ mounted = view
    /\ event = [type |-> "mount", idx |-> 0, key |-> ""]
    /\ pre = [board |-> board, current |-> current, view |-> view]
    /\ chained = FALSE
    /\ moves = 0
    /\ step = 0
    /\ recording = TRUE

\* Mutant: the click handler is the one the first render created.
clickClosureOfMount(latest, first) == first

\* The render whose playAt a cell's onClick calls: the arrow function is created
\* anew by every render, so it is the latest one, not the one of the mount.
clickClosure(latest, first) == latest

\* onClick={() => playAt(idx)} of cell idx
Click(idx) ==
    LET st == playAt(State, clickClosure(view, mounted), idx)
    IN  /\ Record([type |-> "click", idx |-> idx, key |-> ""], st)
        /\ Commit(st)

\* onClick={resetGame} of the Restart Game button
Restart ==
    LET st == resetGame(State, view)
    IN  /\ Record([type |-> "restart", idx |-> 0, key |-> ""], st)
        /\ Commit(st)

\* window keydown listener, added by the effect that runs once at mount
KeyDown(key) ==
    LET st == onKeyDown(State, mounted, key)
    IN  /\ Record([type |-> "keydown", idx |-> 0, key |-> key], st)
        /\ Commit(st)

Next ==
    \/ \E idx \in Cells : Click(idx)
    \/ Restart
    \/ \E key \in Keys : KeyDown(key)

Spec == Init /\ [][Next]_vars

\* A click on a cell whose button is rendered enabled.
EnabledClick == \E idx \in Cells : ~view.cells[idx].disabled /\ Click(idx)

\* The component with the history left unrecorded.
InitLive ==
    /\ board = InitialState.board
    /\ current = InitialState.current
    /\ view = render(InitialState)
    /\ mounted = view
    /\ event = [type |-> "mount", idx |-> 0, key |-> ""]
    /\ pre = [board |-> board, current |-> current, view |-> view]
    /\ chained = FALSE
    /\ moves = 0
    /\ step = 0
    /\ recording = FALSE

\* The component when clicks on enabled cells keep occurring.
SpecLive == InitLive /\ [][Next]_vars /\ WF_vars(EnabledClick)

----------------------------------------------------------------------------
(* The evaluator on its own: one render of an arbitrary board, so that     *)
(* getWinner, draw, gameOver, winningSet and status are applied to each of *)
(* the 3^9 boards and not only to the boards play can reach.               *)

InitEval ==
    /\ board \in [Cells -> Cell]
    /\ current \in Player
    /\ view = render(InitialState)
    /\ mounted = view
    /\ event = [type |-> "mount", idx |-> 0, key |-> ""]
    /\ pre = [board |-> board, current |-> current, view |-> view]
    /\ chained = FALSE
    /\ moves = 0
    /\ step = 0
    /\ recording = TRUE

Evaluate ==
    /\ event.type = "mount"
    /\ view' = render(State)
    /\ event' = [type |-> "render", idx |-> 0, key |-> ""]
    /\ UNCHANGED <<board, current, mounted, pre, chained, moves, step, recording>>

SpecEval == InitEval /\ [][Evaluate]_vars

----------------------------------------------------------------------------
(* What the claims speak of, stated on the board itself and independently  *)
(* of getWinner: complete lines, full boards, finished games, and the kind *)
(* of the event handled last (event, with the state before it in pre).     *)

LineComplete(b, k) ==
    /\ b[LINES[k][1]] \in Player
    /\ b[LINES[k][2]] = b[LINES[k][1]]
    /\ b[LINES[k][3]] = b[LINES[k][1]]

CompleteLines(b) == {k \in 1 .. Len(LINES) : LineComplete(b, k)}

Full(b) == \A i \in Cells : b[i] \in Player

Over(b) == CompleteLines(b) # {} \/ Full(b)

Opposite(p) == CHOOSE q \in Player : q # p

IsClick == event.type = "click"

IsReset ==
    \/ event.type = "restart"
    \/ event.type = "keydown" /\ event.key \in {"r", "R"}

\* The click handled last met a game that was over or a cell that was taken.
RejectedClick == IsClick /\ (Over(pre.board) \/ pre.board[event.idx] # Null)

\* The click handled last met a game in progress and an empty cell.
AcceptedClick == IsClick /\ ~Over(pre.board) /\ pre.board[event.idx] = Null

----------------------------------------------------------------------------
(* C1. Rejection is a no-op: a playAt(idx) on a finished game or on a      *)
(* non-empty cell leaves the board and the current player as they were.    *)
C1_RejectionIsNoOp ==
    RejectedClick => board = pre.board /\ current = pre.current

\* A click on an empty cell of a won game has been handled.
C1_Witness ==
    /\ IsClick
    /\ CompleteLines(pre.board) # {}
    /\ pre.board[event.idx] = Null

(* C2. Effect of an accepted move: playAt(idx) on an empty cell of a game  *)
(* in progress puts the mark of the player who was current into cell idx   *)
(* and leaves the other eight cells unchanged.                             *)
C2_AcceptedMoveEffect ==
    AcceptedClick =>
        /\ board[event.idx] = pre.current
        /\ \A j \in Cells \ {event.idx} : board[j] = pre.board[j]

\* O has moved on a board that already held three marks.
C2_Witness ==
    /\ AcceptedClick
    /\ pre.current = "O"
    /\ Cardinality({j \in Cells : pre.board[j] # Null}) = 3

(* C3. Turn alternation: a fresh game starts with X to move; every         *)
(* accepted move hands the turn to the other player; the current player    *)
(* changes on no event but an accepted move or a reset.                    *)
C3_TurnAlternation ==
    /\ event.type = "mount" => current = "X"
    /\ IsReset => current = "X"
    /\ AcceptedClick => current = Opposite(pre.current)
    /\ current # pre.current => AcceptedClick \/ IsReset

\* The turn has gone from O back to X by an accepted move.
C3_Witness == AcceptedClick /\ pre.current = "O" /\ current = "X"

(* C4. Reset determinism: the Restart button and the keys "r" and "R"      *)
(* (the listener registered at mount) each lead from any state to the      *)
(* empty board with X to move.                                             *)
C4_ResetDeterminism ==
    IsReset => board = EmptyBoard /\ current = "X" /\ view = mounted

\* The key "R" has reset a drawn game whose turn was O's.
C4_Witness ==
    /\ event.type = "keydown" /\ event.key = "R"
    /\ Full(pre.board) /\ CompleteLines(pre.board) = {}
    /\ pre.current = "O"
    /\ board = EmptyBoard

\* The Restart button has reset a game in progress whose turn was O's.
C4_WitnessButton ==
    /\ event.type = "restart"
    /\ ~Over(pre.board)
    /\ pre.current = "O"
    /\ board = EmptyBoard

(* C5 as stated. Win detection: on each of the 3^9 boards, for every line  *)
(* whose three cells hold the same mark, getWinner returns that mark's     *)
(* player with that very line.                                             *)
C5_EveryCompleteLineReported ==
    event.type = "render" =>
        \A k \in CompleteLines(board) :
            view.winnerInfo = [winner |-> board[LINES[k][1]], line |-> LINES[k]]

(* C5 as amended. On each of the 3^9 boards, for every line whose three    *)
(* cells hold the same mark, getWinner returns a win; it is the win of     *)
(* that mark's player with that very line whenever no line earlier in the  *)
(* order of LINES is complete as well.                                     *)
C5_FirstCompleteLineReported ==
    event.type = "render" =>
        \A k \in CompleteLines(board) :
            /\ view.winnerInfo # NoWinner
            /\ (\A j \in CompleteLines(board) : k <= j) =>
                   view.winnerInfo = [winner |-> board[LINES[k][1]],
                                      line   |-> LINES[k]]

\* The anti-diagonal, the last of LINES, is the only complete line and is O's.
C5_Witness ==
    /\ event.type = "render"
    /\ CompleteLines(board) = {8}
    /\ view.winnerInfo = [winner |-> "O", line |-> <<2, 4, 6>>]

(* C6. Draw/None classification: on each of the 3^9 boards the render      *)
(* derives a draw exactly when the board is full with no complete line,    *)
(* and a game in progress (neither winner nor draw) exactly when no line   *)
(* is complete and a cell is empty; a full board with a complete line is   *)
(* a win and not a draw.                                                   *)
C6_DrawNoneClassification ==
    event.type = "render" =>
        /\ view.draw <=> (Full(board) /\ CompleteLines(board) = {})
        /\ (view.winnerInfo = NoWinner /\ ~view.draw /\ ~view.gameOver)
               <=> (CompleteLines(board) = {} /\ ~Full(board))
        /\ Full(board) /\ CompleteLines(board) # {} =>
               view.winnerInfo # NoWinner /\ ~view.draw /\ view.gameOver

\* A full board with no complete line has been rendered as a draw.
C6_Witness ==
    /\ event.type = "render"
    /\ Full(board) /\ CompleteLines(board) = {}
    /\ view.draw /\ view.winnerInfo = NoWinner

\* A full board with a complete line has been rendered.
C6_WitnessFullWin ==
    /\ event.type = "render"
    /\ Full(board) /\ CompleteLines(board) # {}
    /\ ~view.draw

(* C7. Terminal states are absorbing until reset: on a won or drawn game   *)
(* a cell click changes nothing (board, current player and the rendered    *)
(* outcome stay), the only event that changes the state is a reset, which  *)
(* leads to the initial state, in progress; and a terminal state is        *)
(* entered only by an accepted move from a game in progress.               *)
C7_TerminalAbsorbing ==
    /\ view.gameOver <=> Over(board)
    /\ Over(pre.board) /\ IsClick =>
           board = pre.board /\ current = pre.current /\ view = pre.view
    /\ Over(pre.board) /\ (board # pre.board \/ current # pre.current) =>
           IsReset /\ board = EmptyBoard /\ current = "X" /\ ~view.gameOver
    /\ Over(board) /\ (board # pre.board \/ current # pre.current) =>
           AcceptedClick

\* An empty cell of a game O has won has been clicked.
C7_Witness ==
    /\ IsClick
    /\ pre.view.status = "Player O wins"
    /\ pre.board[event.idx] = Null
    /\ view.status = "Player O wins"

(* C8 as stated, its last part. Two clicks in a row on two different empty *)
(* cells of a game that is in progress before the first of them leave the  *)
(* first cell with the mark of the earlier current player and the second   *)
(* with the other player's.                                                *)
C8_TwoClicksBothMarked ==
    [][ ( /\ AcceptedClick
          /\ event'.type = "click"
          /\ event'.idx # event.idx
          /\ pre.board[event'.idx] = Null ) =>
            /\ board'[event.idx] = pre.current
            /\ board'[event'.idx] = Opposite(pre.current)
      ]_vars

(* C8 as amended. Ordering: every event is handled on the state the event  *)
(* before it left (the render the handlers close over is that of the       *)
(* present state, and a click is decided and its board built from the      *)
(* present board and player); two clicks in a row on two different empty   *)
(* cells, the game being in progress at each of the two, leave the first   *)
(* cell with the mark of the earlier current player and the second with    *)
(* the other player's.                                                     *)
C8_Ordering ==
    [][ /\ view'.board = board' /\ view'.current = current'
        /\ event'.type = "click" =>
               IF Over(board) \/ board[event'.idx] # Null
               THEN board' = board /\ current' = current
               ELSE /\ board' = [board EXCEPT ![event'.idx] = current]
                    /\ current' = Opposite(current)
        /\ ( /\ AcceptedClick
             /\ event'.type = "click"
             /\ event'.idx # event.idx
             /\ pre.board[event'.idx] = Null
             /\ ~Over(board) ) =>
               /\ board'[event.idx] = pre.current
               /\ board'[event'.idx] = Opposite(pre.current)
      ]_vars

\* Two clicks in a row have placed O's mark and then X's on a board of one mark.
C8_Witness ==
    /\ chained
    /\ Cardinality({j \in Cells : board[j] # Null}) = 3
    /\ board[event.idx] = "X"
    /\ pre.board[event.idx] = Null
    /\ current = "O"

(* C9. Status projection: the status shown is "Player p wins" when a line  *)
(* is complete for p, "Draw game" when the board is full with no complete  *)
(* line, and otherwise "Player c's turn" with c the current player, who is *)
(* the player whose mark the next accepted move places; it is determined   *)
(* by the board and the current player.                                    *)
C9_StatusProjection ==
    /\ \A k \in CompleteLines(board) :
           view.status = "Player " \o board[LINES[k][1]] \o " wins"
    /\ Full(board) /\ CompleteLines(board) = {} => view.status = "Draw game"
    /\ ~Over(board) => view.status = "Player " \o current \o "'s turn"
    /\ AcceptedClick =>
           pre.view.status = "Player " \o board[event.idx] \o "'s turn"

\* The status has announced O's turn and O's mark has then been placed.
C9_Witness ==
    /\ AcceptedClick
    /\ pre.view.status = "Player O's turn"
    /\ board[event.idx] = "O"
    /\ view.status = "Player X's turn"

(* C10. Win highlight: the highlighted set is empty when no line is        *)
(* complete, and otherwise is exactly the three cells of the line that     *)
(* getWinner reports, a complete line whose cells hold the winner's mark.  *)
C10_WinHighlight ==
    /\ CompleteLines(board) = {} =>
           view.winnerInfo = NoWinner /\ view.winningSet = {}
    /\ CompleteLines(board) # {} =>
           /\ view.winnerInfo # NoWinner
           /\ \E k \in CompleteLines(board) : view.winnerInfo.line = LINES[k]
           /\ view.winningSet = {view.winnerInfo.line[n] : n \in 1 .. 3}
           /\ Cardinality(view.winningSet) = 3
           /\ \A i \in view.winningSet : board[i] = view.winnerInfo.winner

\* O has completed the anti-diagonal and its three cells are highlighted.
C10_Witness ==
    /\ AcceptedClick
    /\ view.winnerInfo.winner = "O"
    /\ view.winningSet = {2, 4, 6}

(* C11. Disabled affordance matches the move guard: a cell is rendered     *)
(* disabled exactly when it is filled or the game has ended; a click on a  *)
(* cell is rejected as a no-op exactly when the cell was rendered          *)
(* disabled, and a click on an enabled cell places the current player's    *)
(* mark.                                                                   *)
C11_DisabledMatchesGuard ==
    /\ \A i \in Cells :
           view.cells[i].disabled <=> (board[i] # Null \/ Over(board))
    /\ IsClick =>
           /\ pre.view.cells[event.idx].disabled
                  <=> (board = pre.board /\ current = pre.current)
           /\ ~pre.view.cells[event.idx].disabled =>
                  /\ board[event.idx] = pre.current
                  /\ pre.board[event.idx] = Null
                  /\ current = Opposite(pre.current)

\* An empty cell of a won game was rendered disabled and its click rejected.
C11_Witness ==
    /\ IsClick
    /\ pre.board[event.idx] = Null
    /\ pre.view.cells[event.idx].disabled
    /\ board = pre.board

\* An enabled cell has been clicked and has taken the mark.
C11_WitnessEnabled ==
    /\ IsClick
    /\ ~pre.view.cells[event.idx].disabled
    /\ board[event.idx] = "O"

(* C12. Draw scenario: from the initial state the clicks 0,1,2,4,3,5,7,6,8 *)
(* are all accepted, the marks alternating X,O,...,X, no state before the  *)
(* last is game-over, and the last state is a full board with no complete  *)
(* line, a draw.                                                           *)
C12_DrawScenario ==
    step >= 0 =>
        /\ moves = step
        /\ \A n \in 1 .. Len(Scenario) :
               board[Scenario[n]] =
                   IF n > step THEN Null ELSE IF n % 2 = 1 THEN "X" ELSE "O"
        /\ step < Len(Scenario) => ~view.gameOver /\ ~Over(board)
        /\ step = Len(Scenario) =>
               /\ Full(board) /\ CompleteLines(board) = {}
               /\ view.winnerInfo = NoWinner /\ view.draw
               /\ view.status = "Draw game"

\* The ninth click of the scenario, on cell 8, has been handled.
C12_Witness ==
    /\ step = Len(Scenario)
    /\ IsClick /\ event.idx = 8
    /\ board[8] = "X"

(* C13. Cell display: each of the nine rendered cells shows its own mark   *)
(* when marked, and the content rendered for an empty cell carries no      *)
(* player mark.                                                            *)
C13_CellDisplay ==
    \A i \in Cells :
        /\ board[i] \in Player => view.cells[i].content = board[i]
        /\ board[i] = Null => view.cells[i].content \notin Player

\* What the render does hold: a marked cell shows its mark in its colour, and
\* an empty cell holds the text "X" in the transparent colour class.
C13_EmptyCellHoldsTransparentX ==
    \A i \in Cells :
        /\ board[i] \in Player =>
               /\ view.cells[i].content = board[i]
               /\ view.cells[i].cellText # "text-transparent"
        /\ board[i] = Null =>
               /\ view.cells[i].content = "X"
               /\ view.cells[i].cellText = "text-transparent"

\* The order the tie-break names: rows top to bottom, columns left to right,
\* the diagonal {0,4,8}, the diagonal {2,4,6}.
TieBreakOrder ==
    << {0, 1, 2}, {3, 4, 5}, {6, 7, 8},
       {0, 3, 6}, {1, 4, 7}, {2, 5, 8},
       {0, 4, 8},
       {2, 4, 6} >>

CompleteInOrder(b) ==
    {k \in 1 .. Len(TieBreakOrder) :
        \E p \in Player : \A i \in TieBreakOrder[k] : b[i] = p}

(* C14. Deterministic tie-break: on every board with two or more complete  *)
(* lines getWinner returns the first complete line in the order rows,      *)
(* columns, diagonal {0,4,8}, diagonal {2,4,6}, with the mark on that      *)
(* line; evaluating the board again gives the result the render holds.     *)
C14_TieBreak ==
    (event.type = "render" /\ Cardinality(CompleteInOrder(board)) >= 2) =>
        LET k == CHOOSE m \in CompleteInOrder(board) :
                     \A n \in CompleteInOrder(board) : m <= n
            line == view.winnerInfo.line
        IN  /\ view.winnerInfo # NoWinner
            /\ Len(line) = 3
            /\ {line[n] : n \in 1 .. 3} = TieBreakOrder[k]
            /\ \A i \in TieBreakOrder[k] : board[i] = view.winnerInfo.winner
            /\ getWinner(board) = view.winnerInfo

\* Row 1 is O's and row 2 is X's: the evaluator has reported row 1 for O.
C14_Witness ==
    /\ event.type = "render"
    /\ CompleteInOrder(board) = {2, 3}
    /\ board[3] = "O" /\ board[6] = "X"
    /\ view.winnerInfo = [winner |-> "O", line |-> <<3, 4, 5>>]

(* C15 as stated. Simultaneous win lines are unreachable in play: in every *)
(* state reachable by cell clicks and resets at most one of the 8 lines is *)
(* complete.                                                               *)
C15_AtMostOneLine == Cardinality(CompleteLines(board)) <= 1

(* C15 as amended. In every state reachable by cell clicks and resets at   *)
(* most two of the 8 lines are complete, and two complete lines hold the   *)
(* same player's mark and cross in one cell (one move completed both);     *)
(* three complete lines, or complete lines of both players, are            *)
(* unreachable.                                                            *)
C15_AtMostTwoCrossingLines ==
    /\ Cardinality(CompleteLines(board)) <= 2
    /\ \A j, k \in CompleteLines(board) :
           j # k =>
               /\ board[LINES[j][1]] = board[LINES[k][1]]
               /\ Cardinality({LINES[j][n] : n \in 1 .. 3}
                                  \cap {LINES[k][n] : n \in 1 .. 3}) = 1

\* One accepted move has completed two lines at once.
C15_Witness ==
    /\ AcceptedClick
    /\ CompleteLines(pre.board) = {}
    /\ Cardinality(CompleteLines(board)) = 2

Marks(b, p) == Cardinality({i \in Cells : b[i] = p})

(* C16. Mark-count invariant: in every state reachable by cell clicks and  *)
(* resets the number of X marks equals the number of O marks or exceeds it *)
(* by exactly one, and the current player is X exactly when the two        *)
(* counts are equal.                                                       *)
C16_MarkCount ==
    /\ Marks(board, "X") - Marks(board, "O") \in {0, 1}
    /\ current = "X" <=> Marks(board, "X") = Marks(board, "O")

\* X has placed a third mark against O's two.
C16_Witness ==
    /\ AcceptedClick
    /\ Marks(board, "X") = 3 /\ Marks(board, "O") = 2
    /\ current = "O"

(* C17. Winner is the last mover: whenever getWinner reports a winner it   *)
(* is the opposite of the stored current player, the player whose accepted *)
(* move came last, so the status never names the stored current player as  *)
(* winner; and no reachable board has complete lines of both X and O.      *)
C17_WinnerIsLastMover ==
    /\ view.winnerInfo # NoWinner =>
           /\ view.winnerInfo.winner = Opposite(current)
           /\ view.status = "Player " \o Opposite(current) \o " wins"
           /\ view.status # "Player " \o current \o " wins"
    /\ (AcceptedClick /\ view.winnerInfo # NoWinner) =>
           view.winnerInfo.winner = pre.current
    /\ \A j, k \in CompleteLines(board) :
           board[LINES[j][1]] = board[LINES[k][1]]

\* O has just won: the stored turn is X's and the status names O.
C17_Witness ==
    /\ AcceptedClick
    /\ view.winnerInfo # NoWinner
    /\ view.winnerInfo.winner = "O"
    /\ current = "X"
    /\ view.status = "Player O wins"

\* A reset that clears a mark: the Restart button or the key "r" or "R".
ResetStep == Restart \/ KeyDown("r") \/ KeyDown("R")

(* C18. Bounded game length: between two resets at most 9 moves are        *)
(* accepted and no game-over state is reached before the 5th accepted      *)
(* move; and, clicks on enabled cells occurring as long as there are any,  *)
(* the game reaches a terminal state (win or draw) unless resets keep      *)
(* happening.                                                              *)
C18_BoundedGame ==
    /\ [](moves <= 9 /\ (Over(board) => moves >= 5))
    /\ ([]<>Over(board) \/ []<><<ResetStep>>_vars)

\* The ninth accepted move of a game has ended it in a draw.
C18_Witness ==
    /\ moves = 9
    /\ view.gameOver /\ view.draw

\* The fifth accepted move of a game has ended it.
C18_WitnessFifthMove ==
    /\ moves = 5
    /\ view.gameOver

====
